---- MODULE Spec2Model ----
(***************************************************************************)
(* Model of the raftstore message router of rfstore                        *)
(* (components/rfstore/src/router.rs): the routing table `peers` (a        *)
(* sharded concurrent map), the per-region channel `peer_sender`, the      *)
(* store channel `store_sender`, and the calls register / close / send /   *)
(* send_store / broadcast_normal made by concurrent threads.               *)
(***************************************************************************)
EXTENDS Integers, Sequences, FiniteSets, TLC

\* ---------------------------------------------------------------- bounds
NumThreads == 2
NumRegions == 2
NumShards == 2
MaxOps == 4
MaxQueue == 2
MaxDeadline == 1
NumStores == 2
MaxReadId == 1

Threads == 1..NumThreads
Regions == 1..NumRegions
Shards == 0..(NumShards - 1)
Deadlines == 1..MaxDeadline
StoreIds == 1..NumStores

\* ------------------------------------------------------------- variables
VARIABLES
    peers,      \* RaftRouter.peers: region id -> <<>> (absent) or <<entry>>
    rguard,     \* per thread: the shards on which it holds a map read guard
    peer_ch,    \* the queue behind RaftRouter.peer_sender: <<id, PeerMsg>> pairs
    store_ch,   \* the queue behind RaftRouter.store_sender: StoreMsg values
    pc,         \* per thread: position inside the call it is executing
    cur,        \* per thread: arguments of the call it is executing
    ret,        \* per thread: the call it completed last and what it returned
    nops,       \* per thread: number of calls started (also tags its payloads)
    biter,      \* per thread: state of the table iterator of broadcast_normal
    delivered,  \* history: pairs the per-region consumer has dequeued, in order
    everReg,    \* history: region ids register was ever called for
    closeDone,  \* history: ids whose close found the entry and has returned,
                \* and that were not registered again since
    okSent,     \* history: <<id, PeerMsg>> pairs for which send returned Ok
    afterClose, \* history, per thread: its latest send started when a close
                \* of the region had already set the flag or returned, with
                \* no register of the region since
    fsm_lock,   \* region ids for which the PeerStates.peer_fsm mutex of the
                \* entry now in the table is held, by a worker or by a close
                \* at its remove
    refs,       \* per thread: region ids whose entry reference, returned by
                \* RaftRouter::get, the thread still keeps
    reader      \* per thread: the requests handed to the local_reader of its
                \* clone of ServerRaftStoreRouter, in order

vars == <<peers, rguard, peer_ch, store_ch, pc, cur, ret, nops, biter,
          delivered, everReg, closeDone, okSent, afterClose, fsm_lock, refs,
          reader>>

\* ------------------------------------------------------------ data types
None == <<>>
Some(x) == <<x>>

\* PeerStates::new(applier, peer): a fresh entry, liveness flag open, around
\* the peer it was built from (told apart by a number).
PeerStates(peer) == [closed |-> FALSE, peer |-> peer]

\* The shard of the map a key hashes to.
ShardOf(id) == id % NumShards

\* Payloads are tagged with the calling thread and its call number.
Payload(t) == [src |-> t, n |-> nops[t] + 1]

CasualMessage(t) == [body |-> Payload(t)]
RaftMessage(t, id) == [region_id |-> id, body |-> Payload(t)]
SignificantMsg(t) == [body |-> Payload(t)]
RaftCmdRequest(t, id) == [region_id |-> id, body |-> Payload(t)]
Callback(t) == [cb |-> Payload(t)]

\* Error::RegionNotFound(region_id, Option<PeerMsg>)
RegionNotFound(id, msg) == [tag |-> "RegionNotFound", id |-> id, msg |-> msg]
Ok == [tag |-> "Ok", id |-> 0, msg |-> None]
Unit == [tag |-> "Unit", id |-> 0, msg |-> None]

NoCall == [call |-> "none", id |-> 0, msg |-> None, deadline |-> None]
\* The iterator of broadcast_normal: the shard it is in, the keys of that
\* shard it has yielded, the key and message of the current loop body and the
\* number of msg_gen calls; and as history the table at the start, whether any
\* register or close overlapped the broadcast, and the pairs it enqueued.
NoIter == [state |-> "none", shard |-> 0, seen |-> {}, key |-> 0, gen |-> 0,
           msg |-> None, start |-> {}, quiet |-> TRUE, sent |-> <<>>]

\* ------------------------------------------------------------------ Init
Init ==
    /\ peers = [r \in Regions |-> None]
    /\ rguard = [t \in Threads |-> {}]
    /\ peer_ch = <<>>
    /\ store_ch = <<>>
    /\ pc = [t \in Threads |-> "idle"]
    /\ cur = [t \in Threads |-> NoCall]
    /\ ret = [t \in Threads |-> [call |-> NoCall, val |-> Unit]]
    /\ nops = [t \in Threads |-> 0]
    /\ biter = [t \in Threads |-> NoIter]
    /\ delivered = <<>>
    /\ everReg = {}
    /\ closeDone = {}
    /\ okSent = {}
    /\ afterClose = [t \in Threads |-> FALSE]
    /\ fsm_lock = {}
    /\ refs = [t \in Threads |-> {}]
    /\ reader = [t \in Threads |-> <<>>]

\* ------------------------------------------------- the concurrent map
\* DashMap::get: the entry for a key, if any. The reference it returns holds
\* a read guard on the key's shard until the reference is dropped.
Get(id) == peers[id]

\* DashMap::insert / DashMap::remove take the write lock of the key's shard,
\* which is granted only while no read guard on that shard is alive, the
\* caller's own included.
CanWrite(id) == \A u \in Threads : ShardOf(id) \notin rguard[u]

\* The shards on which thread t holds a read guard through references it
\* keeps from RaftRouter::get.
HeldShards(t) == {ShardOf(id) : id \in refs[t]}

\* Dropping the reference a call of thread t took on the shard of id: the
\* thread's guard on the shard goes unless a reference it keeps holds one too.
Release(t, id) ==
    IF ShardOf(id) \in HeldShards(t) THEN rguard[t] ELSE rguard[t] \ {ShardOf(id)}

\* ------------------------------------------------------- call bookkeeping
\* A call by thread t returns val.
Return(t, call, val) ==
    /\ pc' = [pc EXCEPT ![t] = "idle"]
    /\ cur' = [cur EXCEPT ![t] = NoCall]
    /\ ret' = [ret EXCEPT ![t] = [call |-> call, val |-> val]]

\* Sum of f over the threads 1..n.
RECURSIVE SumTo(_, _)
SumTo(f, n) == IF n = 0 THEN 0 ELSE f[n] + SumTo(f, n - 1)

\* A thread between calls may start one, while the model's budget of calls
\* lasts.
CanCall(t) == pc[t] = "idle" /\ SumTo(nops, NumThreads) < MaxOps

Call(call, id, msg, deadline) ==
    [call |-> call, id |-> id, msg |-> msg, deadline |-> deadline]

\* History: a register or close call overlaps every broadcast now running.
Disturbed == [u \in Threads |-> [biter[u] EXCEPT !.quiet = FALSE]]

\* ------------------------------------------------------ register / close
\* The peer object handed to register: one more than the peer of the entry
\* the table holds for the region, the first one being 1.
NewPeer(id) == IF Get(id) = None THEN 1 ELSE Get(id)[1].peer + 1

\* RaftRouter::register: build the entry and insert it under the region id.
\* DashMap::insert puts the new entry in the place of one already there. The
\* new entry comes with a mutex of its own (line 212), which nobody holds;
\* a worker still holding the mutex of the entry put out holds nothing of
\* the table any more.
Register(t, id) ==
    /\ CanCall(t)
    /\ CanWrite(id)
    /\ peers' = [peers EXCEPT ![id] = Some(PeerStates(NewPeer(id)))]
    /\ everReg' = everReg \cup {id}
    /\ closeDone' = closeDone \ {id}
    /\ nops' = [nops EXCEPT ![t] = @ + 1]
    /\ ret' = [ret EXCEPT ![t] =
                 [call |-> Call("register", id, None, None), val |-> Unit]]
    /\ fsm_lock' = fsm_lock \ {id}
    /\ biter' = Disturbed
    /\ UNCHANGED <<rguard, peer_ch, store_ch, pc, cur, delivered, okSent, reader, refs, afterClose>>

\* Variant of CloseGet: the lookup result is unwrapped, so an absent id
\* makes the call panic.
CloseGet_Unwrap(t, id) ==
    /\ CanCall(t)
    /\ nops' = [nops EXCEPT ![t] = @ + 1]
    /\ IF Get(id) = None
         THEN /\ ret' = [ret EXCEPT ![t] =
                           [call |-> Call("close", id, None, None),
                            val |-> [tag |-> "Panic", id |-> 0, msg |-> None]]]
              /\ UNCHANGED <<pc, cur, rguard>>
         ELSE /\ pc' = [pc EXCEPT ![t] = "close_store"]
              /\ cur' = [cur EXCEPT ![t] = Call("close", id, None, None)]
              /\ rguard' = [rguard EXCEPT ![t] = @ \cup {ShardOf(id)}]
              /\ UNCHANGED ret
    /\ biter' = Disturbed
    /\ UNCHANGED <<peers, peer_ch, store_ch, delivered, everReg, closeDone, okSent, fsm_lock, reader, refs, afterClose>>

\* RaftRouter::close, line 217: look the region up. Absent: nothing to do.
\* Present: the reference `peer` (and its read guard) lives to the end of
\* the if-let body.
CloseGet(t, id) ==
    /\ CanCall(t)
    /\ nops' = [nops EXCEPT ![t] = @ + 1]
    /\ IF Get(id) = None
         THEN /\ ret' = [ret EXCEPT ![t] =
                           [call |-> Call("close", id, None, None), val |-> Unit]]
              /\ UNCHANGED <<pc, cur, rguard>>
         ELSE /\ pc' = [pc EXCEPT ![t] = "close_store"]
              /\ cur' = [cur EXCEPT ![t] = Call("close", id, None, None)]
              /\ rguard' = [rguard EXCEPT ![t] = @ \cup {ShardOf(id)}]
              /\ UNCHANGED ret
    /\ biter' = Disturbed
    /\ UNCHANGED <<peers, peer_ch, store_ch, delivered, everReg, closeDone, okSent, fsm_lock, reader, refs, afterClose>>

\* Variant of CloseStore: the entry is taken out without its flag being set.
CloseStore_NoFlag(t) ==
    /\ pc' = [pc EXCEPT ![t] = "close_lock"]
    /\ UNCHANGED <<peers, rguard, cur, ret, closeDone>>

\* RaftRouter::close, line 218: peer.closed.store(true).
CloseStore(t) ==
    /\ peers' = [peers EXCEPT ![cur[t].id] =
                    Some([Get(cur[t].id)[1] EXCEPT !.closed = TRUE])]
    /\ pc' = [pc EXCEPT ![t] = "close_lock"]
    /\ UNCHANGED <<rguard, cur, ret, closeDone>>

\* RaftRouter::close, line 220: peer.peer_fsm.lock().unwrap(), the argument
\* of remove, evaluated first. The caller waits while the mutex is held;
\* the guard it gets lives to the end of the statement.
CloseLock(t) ==
    /\ cur[t].id \notin fsm_lock
    /\ fsm_lock' = fsm_lock \cup {cur[t].id}
    /\ pc' = [pc EXCEPT ![t] = "close_remove"]
    /\ UNCHANGED <<peers, rguard, cur, ret, closeDone>>

\* RaftRouter::close, lines 219-221: self.peers.remove(region id of the
\* peer), called while `peer` and the mutex guard are still alive; then the
\* mutex and the reference are let go. The region id read from the peer is
\* the key it was registered under.
CloseRemove(t) ==
    /\ CanWrite(cur[t].id)
    /\ peers' = [peers EXCEPT ![cur[t].id] = None]
    /\ fsm_lock' = fsm_lock \ {cur[t].id}
    /\ rguard' = [rguard EXCEPT ![t] = Release(t, cur[t].id)]
    /\ closeDone' = closeDone \cup {cur[t].id}
    /\ Return(t, cur[t], Unit)

\* The body of close's if-let, one wait or store per step.
CloseStep(t) ==
    /\ pc[t] \in {"close_store", "close_lock", "close_remove"}
    /\ IF pc[t] = "close_store" THEN CloseStore(t) /\ UNCHANGED fsm_lock
       ELSE IF pc[t] = "close_lock" THEN CloseLock(t)
       ELSE CloseRemove(t)
    /\ biter' = Disturbed
    /\ UNCHANGED <<peer_ch, store_ch, nops, delivered, everReg, okSent, refs, reader, afterClose>>

\* A close holds the mutex of region r: it is at its remove.
CloserHolds(r) == \E t \in Threads : pc[t] = "close_remove" /\ cur[t].id = r

\* -------------------------------------------------------------------- get
\* RaftRouter::get: the lookup result handed to the caller. A reference
\* keeps the read guard of the entry's shard for as long as the caller
\* keeps it, whatever the caller does meanwhile. A thread keeps at most one
\* reference to a region.
GetRef(t, id) ==
    /\ CanCall(t)
    /\ id \notin refs[t]
    /\ nops' = [nops EXCEPT ![t] = @ + 1]
    /\ IF Get(id) = None
         THEN /\ ret' = [ret EXCEPT ![t] =
                           [call |-> Call("get", id, None, None),
                            val |-> [tag |-> "None", id |-> 0, msg |-> None]]]
              /\ UNCHANGED <<refs, rguard>>
         ELSE /\ ret' = [ret EXCEPT ![t] =
                           [call |-> Call("get", id, None, None),
                            val |-> [tag |-> "Some", id |-> id, msg |-> None]]]
              /\ refs' = [refs EXCEPT ![t] = @ \cup {id}]
              /\ rguard' = [rguard EXCEPT ![t] = @ \cup {ShardOf(id)}]
    /\ UNCHANGED <<peers, peer_ch, store_ch, pc, cur, biter, delivered, everReg,
                   closeDone, okSent, fsm_lock, reader, afterClose>>

\* The caller of get, between calls, drops a reference it kept.
DropRef(t, id) ==
    /\ pc[t] = "idle"
    /\ id \in refs[t]
    /\ refs' = [refs EXCEPT ![t] = @ \ {id}]
    /\ rguard' = [rguard EXCEPT ![t] =
                    IF \E other \in refs[t] \ {id} : ShardOf(other) = ShardOf(id)
                      THEN @ ELSE @ \ {ShardOf(id)}]
    /\ UNCHANGED <<peers, peer_ch, store_ch, pc, cur, ret, nops, biter, delivered,
                   everReg, closeDone, okSent, fsm_lock, reader, afterClose>>

\* ------------------------------------------------------------------ send
\* PeerMsg: the tagged union addressed to one region.
PeerMsg(tag, inner) == [tag |-> tag, inner |-> inner]

\* Sender::send on a queue: the element goes to the back. A full bounded
\* queue makes the caller wait.
HasRoom(ch) == Len(ch) < MaxQueue
Enqueue(ch, x) == Append(ch, x)

\* History: a close of region id has set the flag of the entry now in the
\* table, or has returned, and the region was not registered again since.
ClosedBefore(id) ==
    \/ id \in closeDone
    \/ Get(id) # None /\ Get(id)[1].closed

\* Variant of SendGet: the error for an absent region is built without the
\* message.
SendGet_NoPayload(t, call) ==
    /\ CanCall(t)
    /\ nops' = [nops EXCEPT ![t] = @ + 1]
    /\ IF Get(call.id) = None
         THEN /\ ret' = [ret EXCEPT ![t] =
                  [call |-> call, val |-> RegionNotFound(call.id, None)]]
              /\ UNCHANGED <<pc, cur, rguard>>
         ELSE /\ pc' = [pc EXCEPT ![t] = "send_load"]
              /\ cur' = [cur EXCEPT ![t] = call]
              /\ rguard' = [rguard EXCEPT ![t] = @ \cup {ShardOf(call.id)}]
              /\ UNCHANGED ret
    /\ afterClose' = [afterClose EXCEPT ![t] = ClosedBefore(call.id)]
    /\ UNCHANGED <<peers, peer_ch, store_ch, biter, delivered, everReg, closeDone, okSent, fsm_lock, reader, refs>>

\* RaftRouter::send, line 225: look the region up. Absent: line 231.
\* Present: the reference `peer` lives to the end of the if-let body.
SendGet(t, call) ==
    /\ CanCall(t)
    /\ nops' = [nops EXCEPT ![t] = @ + 1]
    /\ IF Get(call.id) = None
         THEN /\ ret' = [ret EXCEPT ![t] =
                  [call |-> call, val |-> RegionNotFound(call.id, Some(call.msg))]]
              /\ UNCHANGED <<pc, cur, rguard>>
         ELSE /\ pc' = [pc EXCEPT ![t] = "send_load"]
              /\ cur' = [cur EXCEPT ![t] = call]
              /\ rguard' = [rguard EXCEPT ![t] = @ \cup {ShardOf(call.id)}]
              /\ UNCHANGED ret
    /\ afterClose' = [afterClose EXCEPT ![t] = ClosedBefore(call.id)]
    /\ UNCHANGED <<peers, peer_ch, store_ch, biter, delivered, everReg, closeDone, okSent, fsm_lock, reader, refs>>

\* Variant of SendLoad: the flag is not looked at.
SendLoad_NoCheck(t) ==
    /\ pc[t] = "send_load"
    /\ pc' = [pc EXCEPT ![t] = "send_enqueue"]
    /\ UNCHANGED <<rguard, cur, ret>>
    /\ UNCHANGED <<peers, peer_ch, store_ch, nops, biter, delivered, everReg, closeDone, okSent, fsm_lock, reader, refs, afterClose>>

\* Variant of SendLoad: the flag is read with the peer's lock taken.
SendLoad_Locked(t) ==
    /\ pc[t] = "send_load"
    /\ cur[t].id \notin fsm_lock
    /\ IF Get(cur[t].id)[1].closed
         THEN /\ rguard' = [rguard EXCEPT ![t] = Release(t, cur[t].id)]
              /\ Return(t, cur[t], RegionNotFound(cur[t].id, Some(cur[t].msg)))
         ELSE /\ pc' = [pc EXCEPT ![t] = "send_enqueue"]
              /\ UNCHANGED <<rguard, cur, ret>>
    /\ UNCHANGED <<peers, peer_ch, store_ch, nops, biter, delivered, everReg, closeDone, okSent, fsm_lock, reader, refs, afterClose>>

\* Variant of SendLoad: the test of the flag is inverted.
SendLoad_Inverted(t) ==
    /\ pc[t] = "send_load"
    /\ IF ~Get(cur[t].id)[1].closed
         THEN /\ rguard' = [rguard EXCEPT ![t] = Release(t, cur[t].id)]
              /\ Return(t, cur[t], RegionNotFound(cur[t].id, Some(cur[t].msg)))
         ELSE /\ pc' = [pc EXCEPT ![t] = "send_enqueue"]
              /\ UNCHANGED <<rguard, cur, ret>>
    /\ UNCHANGED <<peers, peer_ch, store_ch, nops, biter, delivered, everReg, closeDone, okSent, fsm_lock, reader, refs, afterClose>>

\* RaftRouter::send, line 226: read the liveness flag. Closed: leave the
\* if-let (dropping `peer`) and return the error of line 231.
SendLoad(t) ==
    /\ pc[t] = "send_load"
    /\ IF Get(cur[t].id)[1].closed
         THEN /\ rguard' = [rguard EXCEPT ![t] = Release(t, cur[t].id)]
              /\ Return(t, cur[t], RegionNotFound(cur[t].id, Some(cur[t].msg)))
         ELSE /\ pc' = [pc EXCEPT ![t] = "send_enqueue"]
              /\ UNCHANGED <<rguard, cur, ret>>
    /\ UNCHANGED <<peers, peer_ch, store_ch, nops, biter, delivered, everReg, closeDone, okSent, fsm_lock, reader, refs, afterClose>>

\* Variant of SendEnqueue: a non-blocking send whose refusal by a full
\* queue is ignored.
SendEnqueue_TrySend(t) ==
    /\ pc[t] = "send_enqueue"
    /\ peer_ch' = IF HasRoom(peer_ch)
                    THEN Enqueue(peer_ch, <<cur[t].id, cur[t].msg>>)
                    ELSE peer_ch
    /\ okSent' = okSent \cup {<<cur[t].id, cur[t].msg>>}
    /\ rguard' = [rguard EXCEPT ![t] = Release(t, cur[t].id)]
    /\ Return(t, cur[t], Ok)
    /\ UNCHANGED <<peers, store_ch, nops, biter, delivered, everReg, closeDone, fsm_lock, reader, refs, afterClose>>

\* Variant of SendEnqueue: significant messages jump to the front of the
\* queue.
SendEnqueue_Priority(t) ==
    /\ pc[t] = "send_enqueue"
    /\ HasRoom(peer_ch)
    /\ peer_ch' = IF cur[t].msg.tag = "SignificantMsg"
                    THEN <<<<cur[t].id, cur[t].msg>>>> \o peer_ch
                    ELSE Enqueue(peer_ch, <<cur[t].id, cur[t].msg>>)
    /\ okSent' = okSent \cup {<<cur[t].id, cur[t].msg>>}
    /\ rguard' = [rguard EXCEPT ![t] = Release(t, cur[t].id)]
    /\ Return(t, cur[t], Ok)
    /\ UNCHANGED <<peers, store_ch, nops, biter, delivered, everReg, closeDone, fsm_lock, reader, refs, afterClose>>

\* RaftRouter::send, lines 227-228: enqueue (id, msg) and return Ok.
SendEnqueue(t) ==
    /\ pc[t] = "send_enqueue"
    /\ HasRoom(peer_ch)
    /\ peer_ch' = Enqueue(peer_ch, <<cur[t].id, cur[t].msg>>)
    /\ okSent' = okSent \cup {<<cur[t].id, cur[t].msg>>}
    /\ rguard' = [rguard EXCEPT ![t] = Release(t, cur[t].id)]
    /\ Return(t, cur[t], Ok)
    /\ UNCHANGED <<peers, store_ch, nops, biter, delivered, everReg, closeDone, fsm_lock, reader, refs, afterClose>>

\* CasualRouter::send of RaftRouter: a peer message for the region.
CasualSend(t, call, id, msg) ==
    SendGet(t, Call(call, id, PeerMsg("CasualMessage", msg), None))

\* RaftStoreRouter::send_casual_msg
SendCasualMsg(t, id) == CasualSend(t, "send_casual_msg", id, CasualMessage(t))

\* RaftRouter::send_raft_msg: the region id is read from the message. `call`
\* names the entry point the call came through.
send_raft_msg(t, call, msg) ==
    SendGet(t, Call(call, msg.region_id, PeerMsg("RaftMessage", msg), None))

\* RaftStoreRouter::send_raft_msg
SendRaftMsg(t, id) == send_raft_msg(t, "send_raft_msg", RaftMessage(t, id))

\* RaftRouter::significant_send.
significant_send(t, call, id, msg) ==
    SendGet(t, Call(call, id, PeerMsg("SignificantMsg", msg), None))

\* RaftStoreRouter::significant_send
SignificantSend(t, id) ==
    significant_send(t, "significant_send", id, SignificantMsg(t))

\* RaftCommand::new(req, cb): a command with nothing else attached.
RaftCommand(req, cb) == [request |-> req, callback |-> cb, deadline |-> None]

\* send_command_impl: the command handed to ProposalRouter::send.
send_command_impl(req, cb, deadline) == RaftCommand(req, cb)

\* ProposalRouter::send of RaftRouter: a peer message for the region named
\* in the request header.
ProposalSend(t, call, cmd, deadline) ==
    SendGet(t, Call(call, cmd.request.region_id,
                    PeerMsg("RaftCommand", cmd), deadline))

\* RaftStoreRouter::send_command
SendCommand(t, id) ==
    ProposalSend(t, "send_command",
                 send_command_impl(RaftCmdRequest(t, id), Callback(t), None), None)

\* RaftStoreRouter::send_command_with_deadline
SendCommandWithDeadline(t, id, d) ==
    ProposalSend(t, "send_command_with_deadline",
                 send_command_impl(RaftCmdRequest(t, id), Callback(t), Some(d)),
                 Some(d))

\* ------------------------------------------------------------ send_store
StoreMsg(t) == [tag |-> "StoreMsg", body |-> Payload(t)]

\* Variant of SendStore: a non-blocking send whose refusal by a full queue
\* is ignored.
SendStore_TrySend(t, call, msg) ==
    /\ CanCall(t)
    /\ store_ch' = IF HasRoom(store_ch) THEN Enqueue(store_ch, msg) ELSE store_ch
    /\ nops' = [nops EXCEPT ![t] = @ + 1]
    /\ ret' = [ret EXCEPT ![t] = [call |-> Call(call, 0, msg, None), val |-> Unit]]
    /\ UNCHANGED <<peers, rguard, peer_ch, pc, cur, biter, delivered, everReg, closeDone, okSent, fsm_lock, reader, refs, afterClose>>

\* RaftRouter::send_store: enqueue the message on the store channel.
SendStore(t, call, msg) ==
    /\ CanCall(t)
    /\ HasRoom(store_ch)
    /\ store_ch' = Enqueue(store_ch, msg)
    /\ nops' = [nops EXCEPT ![t] = @ + 1]
    /\ ret' = [ret EXCEPT ![t] = [call |-> Call(call, 0, msg, None), val |-> Unit]]
    /\ UNCHANGED <<peers, rguard, peer_ch, pc, cur, biter, delivered, everReg, closeDone, okSent, fsm_lock, reader, refs, afterClose>>

\* StoreRouter::send of RaftRouter.
StoreSend(t, call, msg) == SendStore(t, call, msg)

\* RaftStoreRouter::send_store_msg
SendStoreMsg(t) == StoreSend(t, "send_store_msg", StoreMsg(t))

\* ------------------------------------------------------ broadcast_normal
\* msg_gen(): the k-th message the caller's generator produces in this call.
MsgGen(t, k) == PeerMsg("Generated", [src |-> t, n |-> nops[t], k |-> k])

Closing == \E u \in Threads : pc[u] \in {"close_store", "close_lock", "close_remove"}

\* SignificantMsg::StoreUnreachable { store_id }, and StoreMsg::StoreUnreachable
\* { store_id }.
StoreUnreachable(store_id) == [tag |-> "StoreUnreachable", store_id |-> store_id]

\* The closure a broadcast calls for each entry: the caller's own generator
\* for broadcast_normal; for report_unreachable (lines 56-58) the closure
\* building PeerMsg::SignificantMsg(SignificantMsg::StoreUnreachable).
Generate(t, k) ==
    IF cur[t].call = "report_unreachable"
      THEN PeerMsg("SignificantMsg", StoreUnreachable(cur[t].id))
      ELSE MsgGen(t, k)

\* What the broadcasting call returns after the loop: broadcast_normal has no
\* value, report_unreachable (line 59) returns Ok(()).
BroadcastResult(t) ==
    IF cur[t].call = "report_unreachable"
      THEN Ok ELSE Unit

\* RaftRouter::broadcast_normal, line 252: self.peers.iter(), positioned on
\* the first shard with that shard's read guard. `call` is the entry point
\* the broadcast was reached through and `id` its store id, if it has one.
BroadcastStart(t, call, id) ==
    /\ CanCall(t)
    /\ nops' = [nops EXCEPT ![t] = @ + 1]
    /\ pc' = [pc EXCEPT ![t] = "bcast_iter"]
    /\ cur' = [cur EXCEPT ![t] = Call(call, id, None, None)]
    /\ rguard' = [rguard EXCEPT ![t] = HeldShards(t) \cup {0}]
    /\ biter' = [biter EXCEPT ![t] =
                   [NoIter EXCEPT !.state = "running",
                                  !.start = {r \in Regions : Get(r) # None},
                                  !.quiet = ~Closing]]
    /\ UNCHANGED <<peers, peer_ch, store_ch, ret, delivered, everReg, closeDone, okSent, fsm_lock, reader, refs, afterClose>>

\* RaftRouter::broadcast_normal called with the caller's generator.
BroadcastNormal(t) == BroadcastStart(t, "broadcast_normal", 0)

\* Variant of BroadcastIter: the iteration ends with the first shard.
BroadcastIter_FirstShard(t) ==
    LET it == biter[t]
        rest == {r \in Regions :
                   Get(r) # None /\ ShardOf(r) = it.shard /\ r \notin it.seen}
    IN
    /\ pc[t] = "bcast_iter"
    /\ IF rest # {}
         THEN /\ \E r \in rest :
                   biter' = [biter EXCEPT ![t] =
                      [it EXCEPT !.seen = @ \cup {r}, !.key = r, !.gen = @ + 1,
                                 !.msg = Some(Generate(t, it.gen + 1))]]
              /\ pc' = [pc EXCEPT ![t] = "bcast_send"]
              /\ UNCHANGED <<rguard, cur, ret>>
         ELSE /\ biter' = [biter EXCEPT ![t] = [it EXCEPT !.state = "done"]]
              /\ rguard' = [rguard EXCEPT ![t] = HeldShards(t)]
              /\ Return(t, cur[t], BroadcastResult(t))
    /\ UNCHANGED <<peers, peer_ch, store_ch, nops, delivered, everReg, closeDone, okSent, fsm_lock, reader, refs, afterClose>>

\* The iterator's next(): the next entry of the current shard, in the
\* shard's own order, and line 253 (msg_gen) for it; or, the shard being
\* exhausted, on to the next shard (taking its guard, dropping the old
\* one); or, after the last shard, the end of the loop and of the call.
BroadcastIter(t) ==
    LET it == biter[t]
        rest == {r \in Regions :
                   Get(r) # None /\ ShardOf(r) = it.shard /\ r \notin it.seen}
    IN
    /\ pc[t] = "bcast_iter"
    /\ IF rest # {}
         THEN /\ \E r \in rest :
                   biter' = [biter EXCEPT ![t] =
                      [it EXCEPT !.seen = @ \cup {r}, !.key = r, !.gen = @ + 1,
                                 !.msg = Some(Generate(t, it.gen + 1))]]
              /\ pc' = [pc EXCEPT ![t] = "bcast_send"]
              /\ UNCHANGED <<rguard, cur, ret>>
         ELSE IF it.shard + 1 < NumShards
         THEN /\ biter' = [biter EXCEPT ![t] =
                      [it EXCEPT !.shard = @ + 1, !.seen = {}]]
              /\ rguard' = [rguard EXCEPT ![t] = HeldShards(t) \cup {it.shard + 1}]
              /\ UNCHANGED <<pc, cur, ret>>
         ELSE /\ biter' = [biter EXCEPT ![t] = [it EXCEPT !.state = "done"]]
              /\ rguard' = [rguard EXCEPT ![t] = HeldShards(t)]
              /\ Return(t, cur[t], BroadcastResult(t))
    /\ UNCHANGED <<peers, peer_ch, store_ch, nops, delivered, everReg, closeDone, okSent, fsm_lock, reader, refs, afterClose>>

\* RaftRouter::broadcast_normal, line 254: enqueue (key, msg).
BroadcastSend(t) ==
    LET it == biter[t] IN
    /\ pc[t] = "bcast_send"
    /\ HasRoom(peer_ch)
    /\ peer_ch' = Enqueue(peer_ch, <<it.key, it.msg[1]>>)
    /\ biter' = [biter EXCEPT ![t] =
                   [it EXCEPT !.sent = Append(@, <<it.key, it.msg[1]>>)]]
    /\ pc' = [pc EXCEPT ![t] = "bcast_iter"]
    /\ UNCHANGED <<peers, rguard, store_ch, cur, ret, nops, delivered, everReg, closeDone, okSent, fsm_lock, reader, refs, afterClose>>

\* ------------------------------- report_unreachable, broadcast_unreachable
\* RaftStoreRouter::report_unreachable: broadcast_normal with the closure of
\* lines 56-58.
ReportUnreachable(t, store_id) ==
    BroadcastStart(t, "report_unreachable", store_id)

\* Variant of BroadcastUnreachable: the store's regions are told one by one,
\* as report_unreachable tells them.
BroadcastUnreachable_PerRegion(t, store_id) ==
    BroadcastStart(t, "broadcast_unreachable", store_id)

\* RaftStoreRouter::broadcast_unreachable: send_store_msg of
\* StoreMsg::StoreUnreachable, its result dropped.
BroadcastUnreachable(t, store_id) ==
    StoreSend(t, "broadcast_unreachable", StoreUnreachable(store_id))

\* ------------------------------------------------- ServerRaftStoreRouter
\* StoreRouter::send of ServerRaftStoreRouter (lines 103-107).
ServerStoreSend(t) == StoreSend(t, "server.store_send", StoreMsg(t))

\* ProposalRouter::send of ServerRaftStoreRouter (lines 109-113).
ServerProposalSend(t, id) ==
    ProposalSend(t, "server.proposal_send",
                 RaftCommand(RaftCmdRequest(t, id), Callback(t)), None)

\* CasualRouter::send of ServerRaftStoreRouter (lines 115-119).
ServerCasualSend(t, id) ==
    CasualSend(t, "server.casual_send", id, CasualMessage(t))

\* send_raft_msg of ServerRaftStoreRouter (lines 122-124).
ServerSendRaftMsg(t, id) ==
    send_raft_msg(t, "server.send_raft_msg", RaftMessage(t, id))

\* Variant of ServerSignificantSend: the message goes out as a casual one.
ServerSignificantSend_Casual(t, id) ==
    CasualSend(t, "server.significant_send", id, SignificantMsg(t))

\* significant_send of ServerRaftStoreRouter (lines 127-129).
ServerSignificantSend(t, id) ==
    significant_send(t, "server.significant_send", id, SignificantMsg(t))

\* broadcast_normal of ServerRaftStoreRouter (lines 131-133).
ServerBroadcastNormal(t) == BroadcastStart(t, "server.broadcast_normal", 0)

\* Option<ThreadReadId>
ReadIds == {None} \cup {Some(i) : i \in 1..MaxReadId}

\* LocalReader::read(read_id, req, cb): what the reader is handed.
LocalRead(read_id, req, cb) == [read_id |-> read_id, req |-> req, cb |-> cb]

\* Variant of ServerRead: the region is looked up first, and a region that
\* is absent or closed is refused.
ServerRead_Lookup(t, id, read_id) ==
    LET req == RaftCmdRequest(t, id)
        cb == Callback(t)
        found == Get(id) # None /\ ~Get(id)[1].closed
    IN
    /\ CanCall(t)
    /\ nops' = [nops EXCEPT ![t] = @ + 1]
    /\ reader' = IF found
                   THEN [reader EXCEPT ![t] = Append(@, LocalRead(read_id, req, cb))]
                   ELSE reader
    /\ ret' = [ret EXCEPT ![t] =
                 [call |-> Call("server.read", id, LocalRead(read_id, req, cb), None),
                  val |-> IF found THEN Ok ELSE RegionNotFound(id, None)]]
    /\ UNCHANGED <<peers, rguard, peer_ch, store_ch, pc, cur, biter, delivered,
                   everReg, closeDone, okSent, fsm_lock, refs, afterClose>>

\* LocalReadRouter::read of ServerRaftStoreRouter (lines 137-146): borrow the
\* reader, hand it the request, return Ok(()).
ServerRead(t, id, read_id) ==
    LET req == RaftCmdRequest(t, id)
        cb == Callback(t)
    IN
    /\ CanCall(t)
    /\ nops' = [nops EXCEPT ![t] = @ + 1]
    /\ reader' = [reader EXCEPT ![t] = Append(@, LocalRead(read_id, req, cb))]
    /\ ret' = [ret EXCEPT ![t] =
                 [call |-> Call("server.read", id, LocalRead(read_id, req, cb), None),
                  val |-> Ok]]
    /\ UNCHANGED <<peers, rguard, peer_ch, store_ch, pc, cur, biter, delivered,
                   everReg, closeDone, okSent, fsm_lock, refs, afterClose>>

\* ------------------------------------------------------------- consumers
\* The worker draining the per-region channel takes the pair at the front.
RecvPeer ==
    /\ peer_ch # <<>>
    /\ delivered' = Append(delivered, Head(peer_ch))
    /\ peer_ch' = Tail(peer_ch)
    /\ UNCHANGED <<peers, rguard, store_ch, pc, cur, ret, nops, biter, everReg, closeDone, okSent, fsm_lock, reader, refs, afterClose>>

\* The worker draining the store channel takes the message at the front.
RecvStore ==
    /\ store_ch # <<>>
    /\ store_ch' = Tail(store_ch)
    /\ UNCHANGED <<peers, rguard, peer_ch, pc, cur, ret, nops, biter, delivered,
                   everReg, closeDone, okSent, fsm_lock, reader, refs, afterClose>>

\* The worker that runs a region's state machine takes the mutex
\* PeerStates.peer_fsm of an entry it was handed, for as long as it likes.
WorkerLock(r) ==
    /\ Get(r) # None
    /\ r \notin fsm_lock
    /\ fsm_lock' = fsm_lock \cup {r}
    /\ UNCHANGED <<peers, rguard, peer_ch, store_ch, pc, cur, ret, nops, biter,
                   delivered, everReg, closeDone, okSent, reader, refs, afterClose>>

\* The worker lets go of the mutex it holds.
WorkerUnlock(r) ==
    /\ r \in fsm_lock
    /\ ~CloserHolds(r)
    /\ fsm_lock' = fsm_lock \ {r}
    /\ UNCHANGED <<peers, rguard, peer_ch, store_ch, pc, cur, ret, nops, biter,
                   delivered, everReg, closeDone, okSent, reader, refs, afterClose>>

\* ------------------------------------------------------------------ Spec
\* Registration and closure, from whichever thread drives the lifecycle.
Lifecycle ==
    \/ \E t \in Threads, id \in Regions : Register(t, id)
    \/ \E t \in Threads, id \in Regions : CloseGet(t, id)
    \/ \E t \in Threads : CloseStep(t)

\* The continuation of every per-region send.
SendSteps ==
    \/ \E t \in Threads : SendLoad(t)
    \/ \E t \in Threads : SendEnqueue(t)

\* The router under peer messages, store messages and broadcasts.
Next ==
    \/ Lifecycle
    \/ \E t \in Threads, id \in Regions : GetRef(t, id)
    \/ \E t \in Threads, id \in Regions : DropRef(t, id)
    \/ \E t \in Threads, id \in Regions : SendCasualMsg(t, id)
    \/ \E t \in Threads, id \in Regions : SendRaftMsg(t, id)
    \/ \E t \in Threads, id \in Regions : SignificantSend(t, id)
    \/ SendSteps
    \/ \E t \in Threads : SendStoreMsg(t)
    \/ \E t \in Threads : BroadcastNormal(t)
    \/ \E t \in Threads : BroadcastIter(t)
    \/ \E t \in Threads : BroadcastSend(t)
    \/ RecvPeer
    \/ RecvStore

Spec == Init /\ [][Next]_vars

\* The router under the two unreachable-store notifications.
NextUnreachable ==
    \/ Lifecycle
    \/ \E t \in Threads, st \in StoreIds : ReportUnreachable(t, st)
    \/ \E t \in Threads, st \in StoreIds : BroadcastUnreachable(t, st)
    \/ \E t \in Threads : BroadcastIter(t)
    \/ \E t \in Threads : BroadcastSend(t)
    \/ RecvPeer
    \/ RecvStore

SpecUnreachable == Init /\ [][NextUnreachable]_vars

\* The per-region sends and the broadcast, next to workers that lock and
\* unlock the regions' state machines.
NextWorker ==
    \/ Lifecycle
    \/ \E t \in Threads, id \in Regions : SendCasualMsg(t, id)
    \/ \E t \in Threads, id \in Regions : SendRaftMsg(t, id)
    \/ \E t \in Threads, id \in Regions : SignificantSend(t, id)
    \/ SendSteps
    \/ \E t \in Threads : BroadcastNormal(t)
    \/ \E t \in Threads : BroadcastIter(t)
    \/ \E t \in Threads : BroadcastSend(t)
    \/ RecvPeer
    \/ \E r \in Regions : WorkerLock(r)
    \/ \E r \in Regions : WorkerUnlock(r)

SpecWorker == Init /\ [][NextWorker]_vars

\* The router reached through the server-facing wrapper.
NextServer ==
    \/ Lifecycle
    \/ \E t \in Threads : ServerStoreSend(t)
    \/ \E t \in Threads, id \in Regions : ServerProposalSend(t, id)
    \/ \E t \in Threads, id \in Regions : ServerCasualSend(t, id)
    \/ \E t \in Threads, id \in Regions : ServerSendRaftMsg(t, id)
    \/ \E t \in Threads, id \in Regions : ServerSignificantSend(t, id)
    \/ \E t \in Threads : ServerBroadcastNormal(t)
    \/ SendSteps
    \/ \E t \in Threads : BroadcastIter(t)
    \/ \E t \in Threads : BroadcastSend(t)
    \/ RecvPeer
    \/ RecvStore

SpecServer == Init /\ [][NextServer]_vars

\* The local-read path of the wrapper, next to sends through it.
NextRead ==
    \/ Lifecycle
    \/ \E t \in Threads, id \in Regions, rid \in ReadIds : ServerRead(t, id, rid)
    \/ \E t \in Threads, id \in Regions : ServerCasualSend(t, id)
    \/ SendSteps
    \/ RecvPeer

SpecRead == Init /\ [][NextRead]_vars

\* The router under proposals, with and without a deadline.
NextProposal ==
    \/ Lifecycle
    \/ \E t \in Threads, id \in Regions : SendCommand(t, id)
    \/ \E t \in Threads, id \in Regions, d \in Deadlines :
          SendCommandWithDeadline(t, id, d)
    \/ SendSteps
    \/ RecvPeer

SpecProposal == Init /\ [][NextProposal]_vars

\* ------------------------------------------------------ RaftStoreBlackHole
\* A call on the null router: it returns val at once and touches nothing.
BlackHole(t, call, val) ==
    /\ CanCall(t)
    /\ nops' = [nops EXCEPT ![t] = @ + 1]
    /\ ret' = [ret EXCEPT ![t] = [call |-> call, val |-> val]]
    /\ UNCHANGED <<peers, rguard, peer_ch, store_ch, pc, cur, biter, delivered,
                   everReg, closeDone, okSent, fsm_lock, reader, refs, afterClose>>

\* CasualRouter::send of RaftStoreBlackHole (send_casual_msg).
BlackHoleCasualSend(t, id) ==
    BlackHole(t, Call("null.send_casual_msg", id, CasualMessage(t), None), Ok)

\* ProposalRouter::send of RaftStoreBlackHole.
BlackHoleProposalSend(t, id) ==
    BlackHole(t, Call("null.proposal_send", id,
                      RaftCommand(RaftCmdRequest(t, id), Callback(t)), None), Ok)

\* StoreRouter::send of RaftStoreBlackHole (send_store_msg).
BlackHoleStoreSend(t) ==
    BlackHole(t, Call("null.send_store_msg", 0, StoreMsg(t), None), Unit)

\* RaftStoreBlackHole::send_raft_msg
BlackHoleSendRaftMsg(t, id) ==
    BlackHole(t, Call("null.send_raft_msg", id, RaftMessage(t, id), None), Ok)

\* Variant of BlackHoleSignificantSend: the null router reports the region
\* as not found.
BlackHoleSignificantSend_NotFound(t, id) ==
    BlackHole(t, Call("null.significant_send", id, SignificantMsg(t), None),
              RegionNotFound(id, Some(SignificantMsg(t))))

\* RaftStoreBlackHole::significant_send
BlackHoleSignificantSend(t, id) ==
    BlackHole(t, Call("null.significant_send", id, SignificantMsg(t), None), Ok)

\* RaftStoreBlackHole::broadcast_normal: the generator is not called.
BlackHoleBroadcastNormal(t) ==
    BlackHole(t, Call("null.broadcast_normal", 0, None, None), Unit)

\* send_command on RaftStoreBlackHole: send_command_impl, then its
\* ProposalRouter::send.
BlackHoleSendCommand(t, id) ==
    BlackHole(t, Call("null.send_command", id,
                      send_command_impl(RaftCmdRequest(t, id), Callback(t), None),
                      None), Ok)

\* report_unreachable on RaftStoreBlackHole: its broadcast_normal, then Ok.
BlackHoleReportUnreachable(t, store_id) ==
    BlackHole(t, Call("null.report_unreachable", store_id, None, None), Ok)

\* broadcast_unreachable on RaftStoreBlackHole: its send_store_msg.
BlackHoleBroadcastUnreachable(t, store_id) ==
    BlackHole(t, Call("null.broadcast_unreachable", store_id, None, None), Unit)

\* The null router, beside a real router whose table and store channel fill.
NextNull ==
    \/ \E t \in Threads, id \in Regions : BlackHoleCasualSend(t, id)
    \/ \E t \in Threads, id \in Regions : BlackHoleProposalSend(t, id)
    \/ \E t \in Threads : BlackHoleStoreSend(t)
    \/ \E t \in Threads, id \in Regions : BlackHoleSendRaftMsg(t, id)
    \/ \E t \in Threads, id \in Regions : BlackHoleSignificantSend(t, id)
    \/ \E t \in Threads : BlackHoleBroadcastNormal(t)
    \/ \E t \in Threads, id \in Regions : BlackHoleSendCommand(t, id)
    \/ \E t \in Threads, st \in StoreIds : BlackHoleReportUnreachable(t, st)
    \/ \E t \in Threads, st \in StoreIds : BlackHoleBroadcastUnreachable(t, st)
    \/ \E t \in Threads, id \in Regions : Register(t, id)
    \/ \E t \in Threads : SendStoreMsg(t)

SpecNull == Init /\ [][NextNull]_vars

\* ================================================================ claims
\* Thread t starts a call in this step; TheCall(t) is that call, found in
\* `ret` when the call returned in the same step and in `cur` otherwise.
Started(t) == nops'[t] = nops[t] + 1
TheCall(t) == IF pc'[t] = "idle" THEN ret'[t].call ELSE cur'[t]

\* A step taken by thread t: it starts a call, or moves on inside one.
Moves(t) ==
    \/ Started(t)
    \/ pc'[t] # pc[t]
    \/ biter'[t].shard # biter[t].shard

SendCalls == {"send_casual_msg", "send_raft_msg", "significant_send",
              "send_command", "send_command_with_deadline"}

\* Everything the per-region consumer has observed or will observe, in order.
Observed == delivered \o peer_ch
Times(seq, x) == Cardinality({i \in DOMAIN seq : seq[i] = x})

\* The sending thread and its call number, read from a peer message.
BodyOf(msg) ==
    IF msg.tag = "Generated" THEN msg.inner
    ELSE IF msg.tag = "RaftCommand" THEN msg.inner.request.body
    ELSE msg.inner.body

\* C1: a per-region send (casual, raft message, significant) for a region id
\* that was never registered returns, in that one step,
\* RegionNotFound(id, Some(msg)) with the very message passed in, and leaves
\* the table, the per-region channel and the store channel as they were.
C1_NeverRegistered ==
    [][\A t \in Threads :
         (Started(t) /\ TheCall(t).call \in SendCalls
                     /\ TheCall(t).id \notin everReg)
         => /\ pc'[t] = "idle"
            /\ ret'[t].val = [tag |-> "RegionNotFound", id |-> TheCall(t).id,
                              msg |-> <<TheCall(t).msg>>]
            /\ peers' = peers
            /\ peer_ch' = peer_ch
            /\ store_ch' = store_ch]_vars

C1_Witness ==
    \E t, u \in Threads :
       /\ ret[t].call.call = "send_raft_msg"
       /\ ret[t].call.id \notin everReg
       /\ ret[t].val.tag = "RegionNotFound"
       /\ ret[u].call.call = "significant_send"
       /\ ret[u].call.id \notin everReg
       /\ ret[u].val.tag = "RegionNotFound"
       /\ everReg # {}
       /\ peer_ch # <<>>

\* Thread t is making, or has just returned from, one of the per-region
\* sends.
InSend(t) ==
    \/ pc[t] \in {"send_load", "send_enqueue"}
    \/ pc[t] = "idle" /\ ret[t].call.call \in SendCalls

C3_OpenSendDelivers ==
    /\ [][\A t \in Threads :
            /\ (pc[t] = "send_load" /\ ~peers[cur[t].id][1].closed
                                    /\ pc'[t] # "send_load")
               => (pc'[t] = "send_enqueue" /\ store_ch' = store_ch)
            /\ (pc[t] = "send_enqueue" /\ pc'[t] # "send_enqueue")
               => /\ pc'[t] = "idle"
                  /\ ret'[t].val.tag = "Ok"
                  /\ peer_ch' = Append(peer_ch, <<cur[t].id, cur[t].msg>>)
                  /\ store_ch' = store_ch]_vars
    /\ [](\A p \in okSent : Times(Observed, p) = 1)

C3_Witness ==
    \E t \in Threads :
       /\ ret[t].call.call = "send_casual_msg"
       /\ ret[t].val.tag = "Ok"
       /\ Times(delivered, <<ret[t].call.id, ret[t].call.msg>>) = 1

\* C4: when several threads are inside a send to the same region, each one
\* that found the flag open returns Ok; and the consumer dequeues the
\* messages of one thread to one region in the order that thread sent them.
C4_SenderOrder ==
    /\ [][\A t, u \in Threads :
            (t # u /\ pc[u] \in {"send_load", "send_enqueue"}
                   /\ cur[u].id = cur[t].id)
            => /\ (pc[t] = "send_load" /\ ~peers[cur[t].id][1].closed
                                        /\ pc'[t] # "send_load")
                  => pc'[t] = "send_enqueue"
               /\ (pc[t] = "send_enqueue" /\ pc'[t] # "send_enqueue")
                  => ret'[t].val.tag = "Ok"]_vars
    /\ [](\A i, j \in DOMAIN delivered :
            (i < j /\ delivered[i][1] = delivered[j][1]
                   /\ BodyOf(delivered[i][2]).src = BodyOf(delivered[j][2]).src)
            => BodyOf(delivered[i][2]).n < BodyOf(delivered[j][2]).n)

C4_Witness ==
    \E t, u \in Threads : \E i, j, k \in DOMAIN delivered :
       /\ t # u /\ i < j /\ j < k
       /\ delivered[i][1] = delivered[j][1] /\ delivered[j][1] = delivered[k][1]
       /\ BodyOf(delivered[i][2]).src = t
       /\ BodyOf(delivered[j][2]).src = u
       /\ BodyOf(delivered[k][2]).src = t
       /\ \A m \in {i, j, k} : <<delivered[m][1], delivered[m][2]>> \in okSent

\* C5: a significant_send that has returned either returned Ok and its
\* PeerMsg::SignificantMsg is on the per-region channel (or was dequeued
\* from it by the consumer), or returned RegionNotFound carrying the message.
C5_SignificantNotSwallowed ==
    \A t \in Threads :
       ret[t].call.call = "significant_send"
       => LET c == ret[t].call IN
          \/ /\ ret[t].val.tag = "Ok"
             /\ c.msg.tag = "SignificantMsg"
             /\ Times(Observed, <<c.id, c.msg>>) >= 1
          \/ /\ ret[t].val.tag = "RegionNotFound"
             /\ ret[t].val.msg = <<c.msg>>

C5_Witness ==
    \E t, u \in Threads :
       /\ ret[t].call.call = "significant_send"
       /\ ret[t].val.tag = "Ok"
       /\ ret[u].call.call = "significant_send"
       /\ ret[u].val.tag = "RegionNotFound"
       /\ ret[u].call.id \in everReg

\* C6: a broadcast_normal that no register or close overlapped has, when it
\* returns, called the generator once per region that was in the table and
\* enqueued one message for each of those regions and for no other id, each
\* message observed once; over an empty table that is no call and no message.
C6_BroadcastOncePerRegion ==
    \A t \in Threads :
       (biter[t].state = "done" /\ biter[t].quiet)
       => LET it == biter[t] IN
          /\ it.gen = Cardinality(it.start)
          /\ Len(it.sent) = Cardinality(it.start)
          /\ {it.sent[i][1] : i \in DOMAIN it.sent} = it.start
          /\ \A i \in DOMAIN it.sent : Times(Observed, it.sent[i]) = 1

C6_Witness ==
    \E t \in Threads :
       /\ biter[t].state = "done"
       /\ biter[t].quiet
       /\ Cardinality(biter[t].start) >= 2
       /\ \A i \in DOMAIN biter[t].sent : Times(delivered, biter[t].sent[i]) = 1

\* C7: close(id) for an id that is not in the table returns in that one step
\* having changed nothing: no table entry, no flag, no guard, no channel.
C7_CloseAbsentNoOp ==
    [][\A t \in Threads :
         (Started(t) /\ TheCall(t).call = "close" /\ peers[TheCall(t).id] = <<>>)
         => /\ pc'[t] = "idle"
            /\ ret'[t].val.tag = "Unit"
            /\ peers' = peers
            /\ rguard' = rguard
            /\ peer_ch' = peer_ch
            /\ store_ch' = store_ch]_vars

C7_Witness ==
    \E t, u \in Threads : \E r \in Regions :
       /\ ret[t].call.call = "close"
       /\ ret[t].call.id # r
       /\ peers[ret[t].call.id] = <<>>
       /\ peers[r] # <<>> /\ ~peers[r][1].closed
       /\ ret[u].call.call \in SendCalls
       /\ ret[u].call.id = r
       /\ ret[u].val.tag = "Ok"

\* C8: the command send_command_with_deadline(req, cb, d) hands to the
\* proposal-send path carries the deadline d.
C8_DeadlineAttached ==
    \A t \in Threads :
       /\ cur[t].call = "send_command_with_deadline"
          => cur[t].msg.inner.deadline = cur[t].deadline
       /\ ret[t].call.call = "send_command_with_deadline"
          => ret[t].call.msg.inner.deadline = ret[t].call.deadline

NullCalls == {"null.send_casual_msg", "null.proposal_send", "null.send_store_msg",
              "null.send_raft_msg", "null.significant_send",
              "null.broadcast_normal", "null.send_command",
              "null.report_unreachable", "null.broadcast_unreachable"}

\* C9: every call on the null router returns Ok or unit in the step that
\* starts it, changing neither table, guards, channels nor any generator
\* count; and a thread that may start a call is never made to wait for one.
C9_BlackHole ==
    /\ [][\A t \in Threads :
            (Started(t) /\ TheCall(t).call \in NullCalls)
            => /\ pc'[t] = "idle"
               /\ ret'[t].val.tag \in {"Ok", "Unit"}
               /\ UNCHANGED <<peers, rguard, peer_ch, store_ch, biter,
                              delivered, fsm_lock, reader, refs>>]_vars
    /\ [](\A t \in Threads : CanCall(t) =>
            /\ ENABLED BlackHoleStoreSend(t)
            /\ ENABLED BlackHoleBroadcastNormal(t)
            /\ \A id \in Regions :
                 /\ ENABLED BlackHoleCasualSend(t, id)
                 /\ ENABLED BlackHoleProposalSend(t, id)
                 /\ ENABLED BlackHoleSendRaftMsg(t, id)
                 /\ ENABLED BlackHoleSignificantSend(t, id)
                 /\ ENABLED BlackHoleSendCommand(t, id)
            /\ \A st \in StoreIds :
                 /\ ENABLED BlackHoleReportUnreachable(t, st)
                 /\ ENABLED BlackHoleBroadcastUnreachable(t, st))

C9_Witness ==
    \E t \in Threads :
       /\ ret[t].call.call = "null.significant_send"
       /\ ret[t].call.id \notin everReg
       /\ ret[t].val.tag = "Ok"
       /\ everReg # {}
       /\ Len(store_ch) = MaxQueue

\* C10: send_store_msg appends its message, and nothing else, to the store
\* channel and returns unit, leaving table and per-region channel alone.
C10_StoreSend ==
    [][\A t \in Threads :
         (Started(t) /\ TheCall(t).call = "send_store_msg")
         => /\ pc'[t] = "idle"
            /\ ret'[t].val.tag = "Unit"
            /\ store_ch' = Append(store_ch, TheCall(t).msg)
            /\ peers' = peers
            /\ peer_ch' = peer_ch]_vars

C10_Witness ==
    \E t \in Threads : \E r, q \in Regions :
       /\ ret[t].call.call = "send_store_msg"
       /\ store_ch # <<>>
       /\ store_ch[Len(store_ch)] = ret[t].call.msg
       /\ peers[r] # <<>> /\ peers[r][1].closed
       /\ peers[q] = <<>>


\* C11: report_unreachable(store_id) is a broadcast: no step of it touches
\* the store channel, each enqueue of it appends, for an entry of the table,
\* the pair of that region id and
\* PeerMsg::SignificantMsg(StoreUnreachable{store_id}), and it returns Ok
\* having enqueued one pair for each entry it iterated, which are the
\* registered regions when no register or close overlapped the call.
\* broadcast_unreachable(store_id) is one step that appends
\* StoreMsg::StoreUnreachable{store_id} to the store channel and leaves the
\* per-region channel alone.
C11_Unreachable ==
    [][\A t \in Threads :
         /\ (Moves(t) /\ TheCall(t).call = "report_unreachable")
            => /\ store_ch' = store_ch
               /\ TheCall(t).id \in StoreIds
         /\ (cur[t].call = "report_unreachable" /\ pc[t] = "bcast_send"
             /\ pc'[t] # "bcast_send")
            => /\ Get(biter[t].key) # None
               /\ peer_ch' = Append(peer_ch,
                     <<biter[t].key,
                       PeerMsg("SignificantMsg", StoreUnreachable(cur[t].id))>>)
         /\ (cur[t].call = "report_unreachable" /\ pc'[t] = "idle")
            => /\ ret'[t].val = Ok
               /\ peer_ch' = peer_ch
               /\ \A i, j \in DOMAIN biter'[t].sent :
                     biter'[t].sent[i][1] = biter'[t].sent[j][1] => i = j
               /\ biter'[t].quiet
                  => {biter'[t].sent[i][1] : i \in DOMAIN biter'[t].sent}
                       = biter'[t].start
         /\ (Started(t) /\ TheCall(t).call = "broadcast_unreachable")
            => /\ pc'[t] = "idle"
               /\ TheCall(t).msg \in {StoreUnreachable(st) : st \in StoreIds}
               /\ store_ch' = Append(store_ch, TheCall(t).msg)
               /\ peer_ch' = peer_ch
               /\ UNCHANGED <<peers, rguard, biter>>]_vars

\* C11 witness: with every region registered, a report_unreachable has
\* returned Ok after one enqueue per region, and a broadcast_unreachable has
\* put its one message on the store channel.
C11_Witness ==
    \E t, u \in Threads :
      /\ ret[t].call.call = "report_unreachable"
      /\ ret[t].val = Ok
      /\ biter[t].state = "done"
      /\ Len(biter[t].sent) = NumRegions
      /\ \A r \in Regions : Get(r) # None
      /\ ret[u].call.call = "broadcast_unreachable"
      /\ store_ch = <<ret[u].call.msg>>

\* The liveness flag of the entry the table holds for region id.
Closed(id) == Get(id)[1].closed

\* C12: a close that is past its flag store has the flag set and the entry
\* still in the table; a send whose flag check finds the flag set returns
\* RegionNotFound with the message and enqueues nothing; a send gets to its
\* enqueue only through a flag check that found the flag open; and the
\* per-region channel grows only by such an enqueue or by a broadcast's.
C12_CloseSendRace ==
    /\ [](\A t \in Threads : pc[t] \in {"close_lock", "close_remove"}
             => (Get(cur[t].id) # None /\ Closed(cur[t].id)))
    /\ [][/\ \A t \in Threads :
              /\ (pc[t] = "send_load" /\ Closed(cur[t].id) /\ pc'[t] # "send_load")
                 => /\ pc'[t] = "idle"
                    /\ ret'[t].val = RegionNotFound(cur[t].id, Some(cur[t].msg))
                    /\ peer_ch' = peer_ch
              /\ (pc'[t] = "send_enqueue" /\ pc[t] # "send_enqueue")
                 => (pc[t] = "send_load" /\ ~Closed(cur[t].id))
          /\ Len(peer_ch') > Len(peer_ch)
             => \E t \in Threads :
                  /\ pc[t] \in {"send_enqueue", "bcast_send"}
                  /\ pc'[t] # pc[t]]_vars

\* C12 witness: close has set the flag of a region while a send to it that
\* found the flag open has not enqueued yet.
C12_Witness ==
    \E t, u \in Threads :
      /\ pc[u] \in {"close_lock", "close_remove"}
      /\ pc[t] = "send_enqueue"
      /\ cur[t].id = cur[u].id
      /\ Closed(cur[t].id)

\* C13: a close that has set the flag of its entry can go on to remove it:
\* the removal never waits on a read guard held by the closing thread
\* itself, which only that thread's own next step could release.
C13_CloseRemoves ==
    \A t \in Threads :
      (pc[t] = "close_remove" /\ Closed(cur[t].id))
      => /\ ShardOf(cur[t].id) \notin rguard[t]
         /\ ((\A u \in Threads \ {t} : ShardOf(cur[t].id) \notin rguard[u])
              => ENABLED CloseStep(t))

\* C14: an entry enters the table only by a register call for its id; an
\* entry that is in the table stays the entry for its id (register does not
\* put another in its place) until a close of that id takes it out, and it
\* is taken out only with its flag already closed.
C14_OneEntryPerRegion ==
    [][\A r \in Regions :
         /\ (Get(r) = None /\ peers'[r] # None)
            => \E t \in Threads :
                 Started(t) /\ TheCall(t) = Call("register", r, None, None)
         /\ Get(r) # None
            => \/ /\ peers'[r] # None
                  /\ peers'[r][1].peer = Get(r)[1].peer
               \/ /\ peers'[r] = None
                  /\ Closed(r)
                  /\ \E t \in Threads :
                       pc[t] = "close_remove" /\ cur[t].id = r]_vars

\* C16: no enqueue of a broadcast is for a region whose liveness flag is
\* closed at that moment.
C16_BroadcastSkipsClosed ==
    [][\A t \in Threads :
         (pc[t] = "bcast_send" /\ pc'[t] # "bcast_send")
         => (Get(biter[t].key) # None /\ ~Closed(biter[t].key))]_vars

\* A send or broadcast of thread t is waiting for room in the full
\* per-region channel.
Blocked(t) == pc[t] \in {"send_enqueue", "bcast_send"} /\ ~HasRoom(peer_ch)

\* C17: a send or broadcast waiting on the full per-region channel holds no
\* read guard on the table, and a register by a thread free to call, for any
\* region, can go ahead when such waiting threads are the only ones inside
\* a call.
C17_BlockedHoldsNoGuard ==
    \A t \in Threads :
      Blocked(t)
      => /\ rguard[t] = {}
         /\ \A u \in Threads \ {t}, id \in Regions :
              CanCall(u) => ENABLED Register(u, id)

SendPathCalls == {"send_casual_msg", "send_raft_msg", "significant_send",
                  "broadcast_normal"}

\* C15: no step of send, send_raft_msg, significant_send or broadcast_normal
\* takes or releases a region's state-machine lock, and whichever locks the
\* workers hold, each of these calls can start whenever its thread may call
\* and can take its next step: the flag check and the iteration always, the
\* enqueue whenever the channel has room.
C15_SendPathLockFree ==
    /\ [][\A t \in Threads :
            (Moves(t) /\ TheCall(t).call \in SendPathCalls)
            => fsm_lock' = fsm_lock]_vars
    /\ [](\A t \in Threads :
            /\ pc[t] = "send_load" => ENABLED SendLoad(t)
            /\ (pc[t] = "send_enqueue" /\ HasRoom(peer_ch))
               => ENABLED SendEnqueue(t)
            /\ pc[t] = "bcast_iter" => ENABLED BroadcastIter(t)
            /\ (pc[t] = "bcast_send" /\ HasRoom(peer_ch))
               => ENABLED BroadcastSend(t)
            /\ CanCall(t)
               => /\ ENABLED BroadcastNormal(t)
                  /\ \A id \in Regions :
                       /\ ENABLED SendCasualMsg(t, id)
                       /\ ENABLED SendRaftMsg(t, id)
                       /\ ENABLED SignificantSend(t, id))

\* C15 witness: with the lock of every region held by a worker, one thread
\* is at the flag check of a send and another at the enqueue of a broadcast.
C15_Witness ==
    /\ fsm_lock = Regions
    /\ \E t, u \in Threads :
         /\ pc[t] = "send_load"
         /\ pc[u] = "bcast_send"
         /\ HasRoom(peer_ch)

\* C18: a call made through ServerRaftStoreRouter is, step for step, the
\* same call made on the RaftRouter it wraps: the step that starts a store
\* send, proposal send, casual send, send_raft_msg, significant_send or
\* broadcast_normal through the wrapper is the step the wrapped router's own
\* operation takes for the same arguments (same lookup, same result, same
\* effect on the table guards and on both channels), and from there on the
\* call runs the wrapped router's steps.
C18_ServerDelegates ==
    [][\A t \in Threads :
         Started(t) =>
           LET c == TheCall(t) IN
           /\ c.call = "server.store_send"
              => StoreSend(t, c.call, c.msg)
           /\ c.call = "server.proposal_send"
              => (c.msg.tag = "RaftCommand"
                  /\ ProposalSend(t, c.call, c.msg.inner, None))
           /\ c.call = "server.casual_send"
              => (c.msg.tag = "CasualMessage"
                  /\ CasualSend(t, c.call, c.id, c.msg.inner))
           /\ c.call = "server.send_raft_msg"
              => (c.msg.tag = "RaftMessage"
                  /\ send_raft_msg(t, c.call, c.msg.inner))
           /\ c.call = "server.significant_send"
              => (c.msg.tag = "SignificantMsg"
                  /\ significant_send(t, c.call, c.id, c.msg.inner))
           /\ c.call = "server.broadcast_normal"
              => BroadcastStart(t, c.call, 0)]_vars

\* C18 witness: through the wrapper, a significant message to a registered
\* region was accepted and is on its way to the consumer, a send to a
\* region never registered was refused, and a store message was enqueued.
C18_Witness ==
    \E t, u \in Threads :
      /\ ret[t].call.call = "server.significant_send"
      /\ ret[t].val = Ok
      /\ Times(Observed, <<ret[t].call.id, ret[t].call.msg>>) = 1
      /\ ret[u].call.call \in {"server.casual_send", "server.send_raft_msg",
                               "server.proposal_send"}
      /\ ret[u].val.tag = "RegionNotFound"
      /\ ret[u].call.id \notin everReg
      /\ \E i \in DOMAIN store_ch : store_ch[i].body.src \in Threads

\* C19: read through the wrapper is one step that hands (read_id, req, cb)
\* to the calling clone's local reader once and returns Ok; it changes
\* neither the table nor its guards nor either channel, and it can be taken
\* for any region id and read id by any thread free to call, whether the
\* region is registered, closed or unknown.
C19_ReadHandsOff ==
    /\ [][\A t \in Threads :
            (Started(t) /\ TheCall(t).call = "server.read")
            => /\ pc'[t] = "idle"
               /\ ret'[t].val = Ok
               /\ reader' = [reader EXCEPT ![t] = Append(@, TheCall(t).msg)]
               /\ TheCall(t).msg.req.region_id = TheCall(t).id
               /\ UNCHANGED <<peers, rguard, peer_ch, store_ch, biter, refs>>]_vars
    /\ [](\A t \in Threads, id \in Regions, rid \in ReadIds :
            CanCall(t) => ENABLED ServerRead(t, id, rid))

\* C19 witness: one read for a region that was never registered and one for
\* a region whose flag is closed have both returned Ok, each handed to its
\* reader once, with nothing in either channel.
C19_Witness ==
    \E t, u \in Threads :
      /\ t # u
      /\ ret[t].call.call = "server.read" /\ ret[t].val = Ok
      /\ ret[t].call.id \notin everReg
      /\ reader[t] = <<ret[t].call.msg>>
      /\ ret[u].call.call = "server.read" /\ ret[u].val = Ok
      /\ Get(ret[u].call.id) # None /\ Closed(ret[u].call.id)
      /\ reader[u] = <<ret[u].call.msg>>
      /\ peer_ch = <<>> /\ store_ch = <<>> /\ delivered = <<>>
====
